---- MODULE Spec2Model ----
(***************************************************************************)
(* Model of gochunker.go: a Controller that buffers Events read from one   *)
(* app (ingress) websocket, drains the buffer to a primary provider under  *)
(* a token-bucket RateLimiter, then signals a setup goroutine that dials   *)
(* the backup provider and starts a second worker.                         *)
(*                                                                         *)
(* One goroutine = one program counter.  The steps are the points where    *)
(* the goroutines can interleave: a mutex-protected section, a network     *)
(* read or write, a sleep, the channel rendezvous.                         *)
(*                                                                         *)
(* Scope: one producer connection; the setup calls that end the process    *)
(* with log.Fatal (Upgrade, Dial) succeed.  websocket.Conn.ReadMessage is  *)
(* taken to hand each frame to exactly one of its callers.                 *)
(***************************************************************************)
EXTENDS Integers, Sequences, FiniteSets, TLC

\* ------------------------------------------------------------ bounds
\* frames the producer sends on the app connection
MaxFrames == 3
\* largest max handed to NewRateLimiter
MaxTokens == 2

\* ------------------------------------------------------------ data
Main == "Main"
Backup == "Backup"
Workers == {Main, Backup}

Other(w) == IF w = Main THEN Backup ELSE Main

\* how a frame's bytes are written: the canonical encoding json.Marshal
\* produces, another encoding of the same object (key order, white space,
\* unknown keys), or bytes that are not an Event
Forms == {"canon", "loose", "junk"}

\* the k-th frame the producer sends carries id k (ids are unique)
Frame(k, form) == [id |-> k, payload |-> "p", form |-> form]

NoFrame == [id |-> 0, payload |-> "", form |-> "none"]

\* type Event struct { ID, Payload }
Event(id, payload) == [ID |-> id, Payload |-> payload]

NoEvent == Event(0, "")

\* json.Unmarshal(msg, &event): err for bytes that do not decode, else the
\* Event the object holds, whatever its encoding
Unmarshal(msg) ==
    IF msg.form = "junk"
    THEN [err |-> TRUE, event |-> NoEvent]
    ELSE [err |-> FALSE, event |-> Event(msg.id, msg.payload)]

\* json.Marshal(event): always the canonical encoding
Marshal(event) == [id |-> event.ID, payload |-> event.Payload, form |-> "canon"]

\* fault: every worker is started as the trigger
triggerBackupAlways(w) == TRUE

\* main passes triggerBackup = true for Main, false for Backup
triggerBackup(w) == w = Main

\* fault: the setup goroutine does not wait for the signal
SetupStartNoWait == "dial"

\* the setup goroutine begins at its receive from startBackup
SetupStart == "recv"

VARIABLES
    appConn,      \* c.appConn: "nil" or "conn"
    appOpen,      \* FALSE once reads of the app connection fail (close, error)
    nRead,        \* frames ReadMessage has delivered so far
    ipc,          \* readEventsFromApp: "idle" (not started), "read", "append", "done"
                  \*   (and "appending" while it holds c.mu, under LockSpec)
    ievent,       \* readEventsFromApp's decoded event awaiting append
    ingressRead,  \* history: frames delivered to readEventsFromApp
    events,       \* c.events
    tokens,       \* rl.tokens
    maxAllowed,   \* rl.maxAllowed
    granted,      \* history: permits granted since the last tick
    pc,           \* per worker: "none", "check", "read", "allow", "sleep",
                  \*   "write", "fire", "passread", "passwrite", "Terminated"
                  \*   (and "locked", "allowing" while it holds c.mu, rl.mu,
                  \*   under LockSpec)
    idx,          \* per worker: i of the drain loop
    event,        \* per worker: the drain loop's event (NoEvent when not live)
    msg,          \* per worker: the pass-through loop's msg (NoFrame when not live)
    log,          \* history per worker: <<op, frame>> of its sends, fire, forwards
    err,          \* history per worker: "none", "write", "read"
    finalLen,     \* history per worker: len(c.events) as read by the check that
                  \*   ended its drain loop, -1 before
    permits,      \* history per worker: calls of Allow that returned true
    taken,        \* history per worker: frames its pass-through reads returned
    provider,     \* c.providerMain / c.providerBackup: "nil" or "conn"
    spc,          \* setup goroutine: "recv", "dial", "done"
    nFired,       \* history: completed sends on startBackup
    down,         \* the process died (nil dereference panic)
    mu,           \* c.mu: "free", or its holder ("ingress", Main, Backup)
    rlmu          \* rl.mu: "free", or its holder ("refill", Main, Backup)

vars == <<appConn, appOpen, nRead, ipc, ievent, ingressRead, events, tokens,
          maxAllowed, granted, pc, idx, event, msg, log, err, finalLen,
          permits, taken, provider, spc, nFired, down, mu, rlmu>>

appVars == <<appConn, appOpen, nRead>>
ingressVars == <<ipc, ievent, ingressRead>>
rlVars == <<tokens, maxAllowed, granted>>
workerVars == <<pc, idx, event, msg, log, err, finalLen, permits, taken, provider>>
setupVars == <<spc, nFired>>
lockVars == <<mu, rlmu>>

\* ------------------------------------------------------------ Init
\* NewController, NewRateLimiter(max, interval), and main before any
\* goroutine has run
Init ==
    /\ appConn = "nil"
    /\ appOpen = TRUE
    /\ nRead = 0
    /\ ipc = "idle"
    /\ ievent = NoEvent
    /\ ingressRead = <<>>
    /\ events = <<>>
    /\ maxAllowed \in 0..MaxTokens
    /\ tokens = maxAllowed
    /\ granted = 0
    /\ pc = [w \in Workers |-> IF w = Main THEN "dial" ELSE "none"]
    /\ idx = [w \in Workers |-> 0]
    /\ event = [w \in Workers |-> NoEvent]
    /\ msg = [w \in Workers |-> NoFrame]
    /\ log = [w \in Workers |-> <<>>]
    /\ err = [w \in Workers |-> "none"]
    /\ finalLen = [w \in Workers |-> -1]
    /\ permits = [w \in Workers |-> 0]
    /\ taken = [w \in Workers |-> <<>>]
    /\ provider = [w \in Workers |-> "nil"]
    /\ spc = SetupStart
    /\ nFired = 0
    /\ down = FALSE
    /\ mu = "free"
    /\ rlmu = "free"

\* ------------------------------------------------------------ RateLimiter
\* fault: an additive refill, rl.tokens += rl.maxAllowed
RefillAdditive(t, max) == t + max

\* refill: rl.tokens = rl.maxAllowed
RefillTokens(t, max) == max

\* refill: one tick of rl.ticker
refill ==
    /\ ~down
    /\ tokens' = RefillTokens(tokens, maxAllowed)
    /\ granted' = 0
    /\ UNCHANGED <<maxAllowed, appVars, ingressVars, events, workerVars, setupVars, down>>
    /\ UNCHANGED lockVars

\* ------------------------------------------------------------ ingress
\* handleAppConnection: Upgrade succeeded; c.appConn = conn; go readEventsFromApp
handleAppConnection ==
    /\ ~down
    /\ appConn = "nil"
    /\ appConn' = "conn"
    /\ ipc' = "read"
    /\ UNCHANGED <<appOpen, nRead, ievent, ingressRead, events, rlVars, workerVars,
                   setupVars, down>>
    /\ UNCHANGED lockVars

\* the producer closes the connection, or the connection breaks: every later
\* ReadMessage returns an error
AppClose ==
    /\ ~down
    /\ appConn = "conn"
    /\ appOpen
    /\ appOpen' = FALSE
    /\ UNCHANGED <<appConn, nRead, ingressVars, events, rlVars, workerVars, setupVars, down>>
    /\ UNCHANGED lockVars

\* fault: a decode failure ends the read loop (return instead of continue)
DecodeErrReturns == "done"

\* readEventsFromApp: where the loop goes when json.Unmarshal fails: continue
DecodeErrPc == "read"

\* readEventsFromApp: ReadMessage returns a frame, then json.Unmarshal
readEventsFromAppRead ==
    /\ ~down
    /\ ipc = "read"
    /\ appOpen
    /\ nRead < MaxFrames
    /\ \E form \in Forms :
         LET m == Frame(nRead + 1, form)
             r == Unmarshal(m)
         IN /\ nRead' = nRead + 1
            /\ ingressRead' = Append(ingressRead, m)
            /\ IF r.err
               THEN ipc' = DecodeErrPc /\ ievent' = NoEvent
               ELSE ipc' = "append" /\ ievent' = r.event
    /\ UNCHANGED <<appConn, appOpen, events, rlVars, workerVars, setupVars, down>>
    /\ UNCHANGED lockVars

\* fault: the reader's error path ends the workers too
ReadErrStopsWorkers == [w \in Workers |-> "Terminated"]

\* readEventsFromApp: what its return on a read error does to the workers'
\* program counters: nothing
ReadErrPc == pc

\* readEventsFromApp: ReadMessage returns an error
readEventsFromAppErr ==
    /\ ~down
    /\ ipc = "read"
    /\ ~appOpen
    /\ ipc' = "done"
    /\ pc' = ReadErrPc
    /\ UNCHANGED <<taken, appVars, ievent, ingressRead, events, rlVars, idx, event, msg, log, err,
                   finalLen, permits, provider, setupVars, down>>
    /\ UNCHANGED lockVars

\* readEventsFromApp: c.mu.Lock(); c.events = append(c.events, event); c.mu.Unlock()
readEventsFromAppAppend ==
    /\ ~down
    /\ ipc = "append"
    /\ events' = Append(events, ievent)
    /\ ipc' = "read"
    /\ ievent' = NoEvent
    /\ UNCHANGED <<appVars, ingressRead, rlVars, workerVars, setupVars, down>>
    /\ UNCHANGED lockVars

\* ------------------------------------------------------------ workers
\* main's first goroutine: Dial("ws://provider/main") succeeded;
\* controller.providerMain = conn1; startWorker(conn1, "Main", true)
mainDial ==
    /\ ~down
    /\ pc[Main] = "dial"
    /\ provider' = [provider EXCEPT ![Main] = "conn"]
    /\ pc' = [pc EXCEPT ![Main] = "check"]
    /\ idx' = [idx EXCEPT ![Main] = 0]
    /\ UNCHANGED <<taken, appVars, ingressVars, events, rlVars, event, msg, log, err, finalLen, permits, setupVars, down>>
    /\ UNCHANGED lockVars

\* fault: the loop stops one short, i < len(c.events)-1
DrainMoreOffByOne(i, n) == i < n - 1

\* the drain loop's condition: i < len(c.events)
DrainMore(i, n) == i < n

\* fault: the index advances by two
NextIndexSkipping(i) == i + 2

\* the drain loop's post statement: i++
NextIndex(i) == i + 1

\* fault: the trigger worker goes on to pass-through without firing
AfterDrainNoFire(w) == "passread"

\* fault: the worker goes back to the loop condition when its drain ends
AfterDrainRechecks(w) == "check"

\* where a worker goes when its drain loop ends: if triggerBackup, the send
\* on c.startBackup, else the pass-through loop
AfterDrain(w) == IF triggerBackup(w) THEN "fire" ELSE "passread"

\* startWorker: evaluate the loop condition.  len(c.events) is read without
\* c.mu; the read is of one word of a slice that only grows, so it returns
\* the length the buffer had at some instant since this goroutine last
\* locked c.mu, and the step stands for that instant.
startWorkerCheck(w) ==
    /\ ~down
    /\ pc[w] = "check"
    /\ pc' = [pc EXCEPT ![w] = IF DrainMore(idx[w], Len(events)) THEN "read" ELSE AfterDrain(w)]
    /\ finalLen' = [finalLen EXCEPT ![w] = IF DrainMore(idx[w], Len(events))
                                           THEN @ ELSE Len(events)]
    /\ UNCHANGED <<taken, appVars, ingressVars, events, rlVars, idx, event, msg, log, err,
                   permits, provider, setupVars, down>>
    /\ UNCHANGED lockVars

\* startWorker: c.mu.Lock(); event := c.events[i]; c.mu.Unlock()
startWorkerRead(w) ==
    /\ ~down
    /\ pc[w] = "read"
    /\ event' = [event EXCEPT ![w] = events[idx[w] + 1]]
    /\ pc' = [pc EXCEPT ![w] = "allow"]
    /\ UNCHANGED <<taken, appVars, ingressVars, events, rlVars, idx, msg, log, err,
                   finalLen, permits, provider, setupVars, down>>
    /\ UNCHANGED lockVars

\* Allow: the tokens left after a call that finds t of them
AllowTokens(t) == IF t > 0 THEN t - 1 ELSE t

\* fault: Allow grants when no token is left, t >= 0
AllowGrantsAtZero(t) == t >= 0

\* Allow: whether a call that finds t tokens returns true
AllowGrants(t) == t > 0

\* fault: a denial is treated as an error and ends the worker
DeniedReturns == "Terminated"

\* startWorker: where a worker goes when Allow() returned false: into
\* time.Sleep, inside the for !Allow() loop
DeniedPc == "sleep"

\* startWorker: one evaluation of !c.ratelimiter.Allow()
startWorkerAllow(w) ==
    /\ ~down
    /\ pc[w] = "allow"
    /\ tokens' = AllowTokens(tokens)
    /\ IF AllowGrants(tokens)
       THEN /\ granted' = granted + 1
            /\ permits' = [permits EXCEPT ![w] = @ + 1]
            /\ pc' = [pc EXCEPT ![w] = "write"]
       ELSE /\ granted' = granted
            /\ permits' = permits
            /\ pc' = [pc EXCEPT ![w] = DeniedPc]
    /\ UNCHANGED <<taken, appVars, ingressVars, events, maxAllowed, idx, event, msg,
                   log, err, finalLen, provider, setupVars, down>>
    /\ UNCHANGED lockVars

\* startWorker: time.Sleep(1 * time.Minute) returns
startWorkerSleep(w) ==
    /\ ~down
    /\ pc[w] = "sleep"
    /\ pc' = [pc EXCEPT ![w] = "allow"]
    /\ UNCHANGED <<taken, appVars, ingressVars, events, rlVars, idx, event, msg, log, err,
                   finalLen, permits, provider, setupVars, down>>
    /\ UNCHANGED lockVars

\* startWorker: json.Marshal(event); ws.WriteMessage succeeds; i++
startWorkerWrite(w) ==
    /\ ~down
    /\ pc[w] = "write"
    /\ log' = [log EXCEPT ![w] = Append(@, <<"send", Marshal(event[w])>>)]
    /\ idx' = [idx EXCEPT ![w] = NextIndex(@)]
    /\ event' = [event EXCEPT ![w] = NoEvent]
    /\ pc' = [pc EXCEPT ![w] = "check"]
    /\ UNCHANGED <<taken, appVars, ingressVars, events, rlVars, msg, err, finalLen, permits, provider, setupVars, down>>
    /\ UNCHANGED lockVars

\* fault: a write error ends both workers
WriteErrKillsAll(w) == [o \in Workers |-> "Terminated"]

\* fault: a write error restarts the worker's drain loop
WriteErrRetries(w) == [pc EXCEPT ![w] = "check"]

\* fault: a write error leaves the loop (break) and falls through to the
\* code after it
WriteErrBreaks(w) == [pc EXCEPT ![w] = AfterDrain(w)]

\* what a write error does to the goroutines' program counters: return from
\* the worker's own goroutine
WriteErrPc(w) == [pc EXCEPT ![w] = "Terminated"]

\* startWorker: ws.WriteMessage fails in the drain loop; return
startWorkerWriteErr(w) ==
    /\ ~down
    /\ pc[w] = "write"
    /\ pc' = WriteErrPc(w)
    /\ err' = [err EXCEPT ![w] = "write"]
    /\ event' = [event EXCEPT ![w] = NoEvent]
    /\ UNCHANGED <<taken, appVars, ingressVars, events, rlVars, idx, msg, log,
                   finalLen, permits, provider, setupVars, down>>
    /\ UNCHANGED lockVars

\* startWorker: c.startBackup <- struct{}{} meets main's second goroutine
\* at <-controller.startBackup
startWorkerFire(w) ==
    /\ ~down
    /\ pc[w] = "fire"
    /\ spc = "recv"
    /\ spc' = "dial"
    /\ nFired' = nFired + 1
    /\ log' = [log EXCEPT ![w] = Append(@, <<"fire", NoFrame>>)]
    /\ pc' = [pc EXCEPT ![w] = "passread"]
    /\ UNCHANGED <<taken, appVars, ingressVars, events, rlVars, idx, event, msg, err, finalLen, permits,
                   provider, down>>
    /\ UNCHANGED lockVars

\* main's second goroutine: Dial("ws://provider/backup") succeeded;
\* controller.providerBackup = conn2; startWorker(conn2, "Backup", false)
setupDial ==
    /\ ~down
    /\ spc = "dial"
    /\ spc' = "done"
    /\ provider' = [provider EXCEPT ![Backup] = "conn"]
    /\ pc' = [pc EXCEPT ![Backup] = "check"]
    /\ idx' = [idx EXCEPT ![Backup] = 0]
    /\ UNCHANGED <<taken, appVars, ingressVars, events, rlVars, event, msg, log, err, finalLen, permits,
                   nFired, down>>
    /\ UNCHANGED lockVars

\* startWorker: c.appConn.ReadMessage() on a nil c.appConn panics
startWorkerPassNil(w) ==
    /\ ~down
    /\ pc[w] = "passread"
    /\ appConn = "nil"
    /\ down' = TRUE
    /\ UNCHANGED <<appVars, ingressVars, events, rlVars, workerVars, setupVars>>
    /\ UNCHANGED lockVars

\* fault: the pass-through loop also decodes and buffers what it reads
PassBuffers(ev, m) == IF Unmarshal(m).err THEN ev ELSE Append(ev, Unmarshal(m).event)

\* startWorker: what the pass-through loop does to c.events with the msg it
\* read: nothing
PassEvents(ev, m) == ev

\* startWorker: c.appConn.ReadMessage() returns a frame
startWorkerPassRead(w) ==
    /\ ~down
    /\ pc[w] = "passread"
    /\ appConn = "conn"
    /\ appOpen
    /\ nRead < MaxFrames
    /\ \E form \in Forms :
         /\ msg' = [msg EXCEPT ![w] = Frame(nRead + 1, form)]
         /\ nRead' = nRead + 1
         /\ taken' = [taken EXCEPT ![w] = Append(@, Frame(nRead + 1, form))]
         /\ events' = PassEvents(events, Frame(nRead + 1, form))
    /\ pc' = [pc EXCEPT ![w] = "passwrite"]
    /\ UNCHANGED <<appConn, appOpen, ingressVars, rlVars, idx, event, log, err,
                   finalLen, permits, provider, setupVars, down>>
    /\ UNCHANGED lockVars

\* startWorker: c.appConn.ReadMessage() returns an error; return
startWorkerPassReadErr(w) ==
    /\ ~down
    /\ pc[w] = "passread"
    /\ appConn = "conn"
    /\ ~appOpen
    /\ pc' = [pc EXCEPT ![w] = "Terminated"]
    /\ err' = [err EXCEPT ![w] = "read"]
    /\ UNCHANGED <<taken, appVars, ingressVars, events, rlVars, idx, event, msg, log,
                   finalLen, permits, provider, setupVars, down>>
    /\ UNCHANGED lockVars

\* startWorker: ws.WriteMessage(websocket.TextMessage, msg) succeeds
startWorkerPassWrite(w) ==
    /\ ~down
    /\ pc[w] = "passwrite"
    /\ log' = [log EXCEPT ![w] = Append(@, <<"fwd", msg[w]>>)]
    /\ msg' = [msg EXCEPT ![w] = NoFrame]
    /\ pc' = [pc EXCEPT ![w] = "passread"]
    /\ UNCHANGED <<taken, appVars, ingressVars, events, rlVars, idx, event, err, finalLen, permits,
                   provider,
                   setupVars, down>>
    /\ UNCHANGED lockVars

\* startWorker: ws.WriteMessage fails in the pass-through loop; return
startWorkerPassWriteErr(w) ==
    /\ ~down
    /\ pc[w] = "passwrite"
    /\ pc' = WriteErrPc(w)
    /\ err' = [err EXCEPT ![w] = "write"]
    /\ msg' = [msg EXCEPT ![w] = NoFrame]
    /\ UNCHANGED <<taken, appVars, ingressVars, events, rlVars, idx, event, log,
                   finalLen, permits, provider, setupVars, down>>
    /\ UNCHANGED lockVars

\* ------------------------------------------------------------ specification
Next ==
    \/ refill
    \/ handleAppConnection
    \/ AppClose
    \/ readEventsFromAppRead
    \/ readEventsFromAppErr
    \/ readEventsFromAppAppend
    \/ mainDial
    \/ setupDial
    \/ \E w \in Workers : startWorkerCheck(w)
    \/ \E w \in Workers : startWorkerRead(w)
    \/ \E w \in Workers : startWorkerAllow(w)
    \/ \E w \in Workers : startWorkerSleep(w)
    \/ \E w \in Workers : startWorkerWrite(w)
    \/ \E w \in Workers : startWorkerWriteErr(w)
    \/ \E w \in Workers : startWorkerFire(w)
    \/ \E w \in Workers : startWorkerPassNil(w)
    \/ \E w \in Workers : startWorkerPassRead(w)
    \/ \E w \in Workers : startWorkerPassReadErr(w)
    \/ \E w \in Workers : startWorkerPassWrite(w)
    \/ \E w \in Workers : startWorkerPassWriteErr(w)

Spec == Init /\ [][Next]_vars

\* ------------------------------------------------------------ observations
\* the frames a worker wrote to its provider with a given op, in order
Frames(w, op) ==
    LET sel == SelectSeq(log[w], LAMBDA e : e[1] = op)
    IN [k \in 1..Len(sel) |-> sel[k][2]]

DrainSends(w) == Frames(w, "send")

Forwards(w) == Frames(w, "fwd")

Draining(w) == pc[w] \in {"check", "read", "allow", "sleep", "write"}

PassThrough(w) == pc[w] \in {"passread", "passwrite"}

\* the worker's drain loop has ended at a check that found i >= len(c.events)
DrainDone(w) == finalLen[w] >= 0

\* the order of a trigger worker's phases
Rank(op) == CASE op = "send" -> 0 [] op = "fire" -> 1 [] op = "fwd" -> 2

\* ------------------------------------------------------------ claims

\* C1: a worker's k-th drain send is the (re-serialized) Event at index k of
\* the buffer, so each index is sent once and in arrival order; and a drain
\* that ended without a write error ended at a check that found its index
\* equal to the buffer length, having sent every Event appended before it.
C1_DrainFifoExactlyOnce ==
    \A w \in Workers :
        /\ idx[w] <= Len(events)
        /\ DrainSends(w) = [k \in 1..idx[w] |-> Marshal(events[k])]
        /\ DrainDone(w) => /\ ~Draining(w)
                           /\ finalLen[w] = idx[w]
                           /\ Len(DrainSends(w)) = finalLen[w]

\* C1 witness: the primary ended its drain having sent three buffered Events,
\* one of them received in a non-canonical encoding
C1_Witness ==
    /\ finalLen[Main] = MaxFrames
    /\ Len(DrainSends(Main)) = MaxFrames
    /\ \E k \in 1..Len(ingressRead) : ingressRead[k].form = "loose"
    /\ err[Main] = "none"

\* C2: before the failover signal has been fired the backup provider
\* connection does not exist and the backup worker has not started or sent
\* anything; and once it has been fired, the primary's drain loop had ended
\* at a check that found its index equal to the buffer length.
C2_BackupAfterFire ==
    /\ nFired = 0 => /\ provider[Backup] = "nil"
                     /\ pc[Backup] = "none"
                     /\ log[Backup] = <<>>
    /\ nFired > 0 => /\ DrainDone(Main)
                     /\ finalLen[Main] = idx[Main]
                     /\ \E k \in 1..Len(log[Main]) : log[Main][k][1] = "fire"

\* C2 witness: after the fire the backup connection exists and the backup
\* worker has written to it
C2_Witness ==
    /\ nFired = 1
    /\ provider[Backup] = "conn"
    /\ Len(log[Backup]) > 0

\* C3 (as claimed): the backup worker never drains: it is never in the drain
\* loop with an Event to send, it sends no buffered Event, and no index of
\* the buffer is drained by both workers.
C3_BackupNeverDrains ==
    /\ pc[Backup] \notin {"read", "allow", "sleep", "write"}
    /\ DrainSends(Backup) = <<>>
    /\ \A k \in 1..Len(events) : ~(k <= idx[Main] /\ k <= idx[Backup])

\* C4: between two ticks (and before the first) at most max permits are
\* granted, tokens stays within 0..max, and every tick leaves tokens = max
\* whatever was left before it.
C4_LimiterBound ==
    /\ [](granted <= maxAllowed /\ tokens \in 0..maxAllowed)
    /\ [][refill => tokens' = maxAllowed /\ granted' = 0]_vars

\* C4 witness: a tick has reset a bucket of max 2 from which only one permit
\* had been taken (the primary still holds it, unwritten): tokens is 2, not 3
C4_Witness ==
    /\ maxAllowed = 2
    /\ tokens = 2
    /\ granted = 0
    /\ pc[Main] = "write"
    /\ permits[Main] = 1
    /\ pc[Backup] = "none"

\* C5: the trigger worker's observable actions are ordered: drain sends (the
\* buffered Events in index order, each after its own permit), then the
\* fire, then pass-through forwards; it is in PassThrough only after the fire.
C5_SendFireForwardOrder ==
    \A w \in Workers : triggerBackup(w) =>
        /\ \A a, b \in 1..Len(log[w]) : a < b => Rank(log[w][a][1]) <= Rank(log[w][b][1])
        /\ Cardinality({k \in 1..Len(log[w]) : log[w][k][1] = "fire"}) <= 1
        /\ DrainSends(w) = [k \in 1..Len(DrainSends(w)) |-> Marshal(events[k])]
        /\ Len(DrainSends(w)) <= permits[w]
        /\ (PassThrough(w) \/ Forwards(w) # <<>>) =>
               \E k \in 1..Len(log[w]) : log[w][k][1] = "fire"

\* C5 witness: the primary sent Events 1 and 2 in order, fired, and then
\* forwarded frame 3 as received
C5_Witness ==
    /\ Len(log[Main]) = 4
    /\ log[Main][1] = <<"send", Frame(1, "canon")>>
    /\ log[Main][2] = <<"send", Frame(2, "canon")>>
    /\ log[Main][3][1] = "fire"
    /\ log[Main][4] = <<"fwd", Frame(3, "loose")>>

\* C6 (as claimed): while a worker waits in its pass-through read, every
\* frame that arrives on the ingress connection goes to that worker (which
\* then forwards it as received); it is not appended to the buffer and the
\* limiter is not consulted.
C6_EveryFrameForwarded ==
    [][\A w \in Workers :
          (pc[w] = "passread" /\ nRead' = nRead + 1) =>
              /\ pc'[w] = "passwrite"
              /\ msg'[w].id = nRead'
              /\ ipc' = ipc
              /\ tokens' = tokens]_vars

\* the Events decoded from the frames that decode, in order
Decoded(frames) ==
    LET valid == SelectSeq(frames, LAMBDA f : ~Unmarshal(f).err)
    IN [k \in 1..Len(valid) |-> Unmarshal(valid[k]).event]

\* C7: the buffer is exactly the Events decoded from the frames the ingress
\* reader has read that decode, in arrival order (the last one may still be
\* awaiting its append): a frame that fails to decode adds nothing; and the
\* read loop ends only on a read error, never on a decode failure.
C7_MalformedDropped ==
    /\ IF ipc = "append"
       THEN Append(events, ievent) = Decoded(ingressRead)
       ELSE events = Decoded(ingressRead)
    /\ ipc = "done" => ~appOpen
    /\ Len(events) <= Len(ingressRead)

\* C7 witness: a malformed frame between two valid ones; both valid ones are
\* in the buffer and the reader is reading on
C7_Witness ==
    /\ Len(ingressRead) = 3
    /\ ingressRead[1].form = "canon"
    /\ ingressRead[2].form = "junk"
    /\ ingressRead[3].form = "loose"
    /\ events = <<Event(1, "p"), Event(3, "p")>>
    /\ ipc = "read"
    /\ appOpen

\* C8 (as claimed): whenever a worker has terminated on a write error, the
\* other worker has been started or can still be started, i.e. it still gets
\* to run and send.
C8_OtherWorkerStillRuns ==
    \A w \in Workers :
        err[w] = "write" =>
            IF w = Main
            THEN pc[Backup] # "none" \/ spc = "dial"
            ELSE pc[Main] # "dial"

\* one step of worker w that waits for nothing outside the process
LocalStep(w) ==
    \/ startWorkerCheck(w)
    \/ startWorkerRead(w)
    \/ startWorkerAllow(w)
    \/ startWorkerSleep(w)
    \/ startWorkerWrite(w)
    \/ startWorkerPassWrite(w)

\* C8 (amended): the step in which a worker terminates on a write error
\* changes nothing of the other worker, the ingress reader, the setup
\* goroutine or the shared state; afterwards the ingress reader and the
\* other worker, if it has been started, can still take their next step;
\* and the backup is never started if the primary failed while draining.
C8_WriteErrorIsLocal ==
    /\ [][\A w \in Workers :
            (err[w] # "write" /\ err'[w] = "write") =>
                /\ pc'[w] = "Terminated"
                /\ pc'[Other(w)] = pc[Other(w)]
                /\ err'[Other(w)] = err[Other(w)]
                /\ UNCHANGED <<appVars, ingressVars, events, rlVars, setupVars, down>>]_vars
    /\ [](\A w \in Workers :
            err[w] = "write" =>
                /\ ~down
                /\ pc[Other(w)] \in {"check", "read", "allow", "sleep", "write", "passwrite"}
                      => ENABLED LocalStep(Other(w))
                /\ ipc = "append" => ENABLED readEventsFromAppAppend
                /\ (w = Main /\ ~DrainDone(Main)) => (pc[Backup] = "none" /\ spc = "recv"))

\* C8 witness: the primary terminated on a write error in PassThrough while
\* the backup holds a permit and is about to send, and the ingress reader is
\* about to append
C8_Witness ==
    /\ err[Main] = "write"
    /\ pc[Main] = "Terminated"
    /\ DrainDone(Main)
    /\ pc[Backup] = "write"
    /\ ipc = "append"

\* C9: the failover signal is fired at most once and only by the primary: the
\* backup never reaches the send on startBackup, and the setup goroutine
\* leaves its receive exactly when the one fire happens.
C9_SingleFireByTrigger ==
    /\ nFired <= 1
    /\ Cardinality({k \in 1..Len(log[Main]) : log[Main][k][1] = "fire"}) = nFired
    /\ \A k \in 1..Len(log[Backup]) : log[Backup][k][1] # "fire"
    /\ pc[Backup] # "fire"
    /\ (spc = "recv") <=> (nFired = 0)
    /\ pc[Backup] # "none" => spc = "done"

\* C9 witness: after the one fire both workers are in PassThrough; the backup
\* got there without firing
C9_Witness ==
    /\ nFired = 1
    /\ spc = "done"
    /\ PassThrough(Main)
    /\ PassThrough(Backup)
    /\ idx[Backup] > 0

\* the Go scheduler runs a rendezvous whose two sides are ready
FairSpec == Spec /\ WF_vars(\E w \in Workers : startWorkerFire(w))

\* C10: whenever the primary is at the send on startBackup the setup
\* goroutine is at its receive, and the primary then gets to PassThrough.
C10_RendezvousCompletes ==
    /\ [](\A w \in Workers : pc[w] = "fire" => (w = Main /\ spc = "recv" /\ ~down))
    /\ (pc[Main] = "fire") ~> PassThrough(Main)

\* C10 witness: the primary has fired and reads in PassThrough while the
\* setup goroutine dials the backup
C10_Witness ==
    /\ pc[Main] = "passread"
    /\ spc = "dial"
    /\ nFired = 1

\* C11: once a worker's drain loop has ended at a check that read length n,
\* no Event at an index beyond n is ever written by that worker: it is not
\* among its drain sends (there are exactly n of them), and no frame it
\* forwards or holds in PassThrough carries that Event's id (the frame was
\* consumed by the ingress reader).
C11_LateEventsNeverSent ==
    \A w \in Workers :
        DrainDone(w) =>
            /\ Len(DrainSends(w)) = finalLen[w]
            /\ ~Draining(w)
            /\ \A k \in (finalLen[w] + 1)..Len(events) :
                   /\ msg[w].id # events[k].ID
                   /\ \A j \in 1..Len(log[w]) : log[w][j][2].id # events[k].ID

\* C11 witness: the primary ended its drain on an empty buffer; two Events
\* were appended afterwards, and the primary has meanwhile forwarded another
\* frame in PassThrough
C11_Witness ==
    /\ finalLen[Main] = 0
    /\ Len(events) = 2
    /\ Len(Forwards(Main)) = 1
    /\ DrainSends(Main) = <<>>
    /\ pc[Main] = "passread"

\* C14: tokens stays within 0..max; a worker at Allow can always take the
\* call (it never blocks); the call grants and takes exactly one token iff
\* it finds tokens > 0, and otherwise denies and leaves tokens at 0.
C14_AllowContract ==
    /\ [](tokens \in 0..maxAllowed)
    /\ [](\A w \in Workers : (pc[w] = "allow" /\ ~down) => ENABLED startWorkerAllow(w))
    /\ [][\A w \in Workers :
            startWorkerAllow(w) =>
                IF tokens > 0
                THEN /\ tokens' = tokens - 1
                     /\ permits'[w] = permits[w] + 1
                     /\ pc'[w] = "write"
                ELSE /\ tokens = 0 /\ tokens' = 0
                     /\ permits'[w] = permits[w]
                     /\ pc'[w] = "sleep"]_vars

\* C14 witness: with max 1 the primary was granted the one token for its
\* first Event and denied for its second
C14_Witness ==
    /\ maxAllowed = 1
    /\ tokens = 0
    /\ permits[Main] = 1
    /\ idx[Main] = 1
    /\ pc[Main] = "sleep"

\* every step of worker w
WorkerStep(w) ==
    \/ startWorkerCheck(w)
    \/ startWorkerRead(w)
    \/ startWorkerAllow(w)
    \/ startWorkerSleep(w)
    \/ startWorkerWrite(w)
    \/ startWorkerWriteErr(w)
    \/ startWorkerFire(w)
    \/ startWorkerPassNil(w)
    \/ startWorkerPassRead(w)
    \/ startWorkerPassReadErr(w)
    \/ startWorkerPassWrite(w)
    \/ startWorkerPassWriteErr(w)

\* C16: a worker is Terminated exactly when it has hit a write or read
\* error; a Terminated worker has no step it can take, and no step of the
\* system changes its state: it stays Terminated, writes nothing, is granted
\* nothing, reads nothing and does not fire.
C16_TerminatedAbsorbing ==
    /\ [](\A w \in Workers : (err[w] # "none") <=> (pc[w] = "Terminated"))
    /\ [](\A w \in Workers : pc[w] = "Terminated" => ~ENABLED WorkerStep(w))
    /\ [][\A w \in Workers :
            pc[w] = "Terminated" =>
                /\ pc'[w] = "Terminated"
                /\ log'[w] = log[w]
                /\ permits'[w] = permits[w]
                /\ idx'[w] = idx[w]
                /\ msg'[w] = msg[w]
                /\ event'[w] = event[w]
                /\ err'[w] = err[w]]_vars

\* C16 witness: the primary terminated on a write error with its first Event
\* while two more Events wait in the buffer and a token is available
C16_Witness ==
    /\ pc[Main] = "Terminated"
    /\ err[Main] = "write"
    /\ idx[Main] = 0
    /\ Len(events) = MaxFrames
    /\ tokens > 0

\* C19 (as claimed): no worker is at its pass-through read while c.appConn is
\* still nil, and the process never dies of a nil dereference.
C19_HandleSetBeforePassRead ==
    /\ \A w \in Workers : pc[w] = "passread" => appConn # "nil"
    /\ ~down

\* C20: if the primary hit a write error while Draining, the signal has not
\* been and cannot be fired: the setup goroutine is still at its receive,
\* the backup connection and worker do not exist and nothing was sent to the
\* backup provider; whenever the signal has been fired the primary's drain
\* had ended, without error, with every Event up to its final check sent.
C20_NoFailoverAfterDrainError ==
    /\ (err[Main] = "write" /\ ~DrainDone(Main)) =>
           /\ nFired = 0
           /\ spc = "recv"
           /\ provider[Backup] = "nil"
           /\ pc[Backup] = "none"
           /\ log[Backup] = <<>>
           /\ ~ENABLED (\E w \in Workers : startWorkerFire(w))
           /\ ~ENABLED setupDial
    /\ nFired > 0 =>
           /\ DrainDone(Main)
           /\ Len(DrainSends(Main)) = finalLen[Main]

\* C20 witness: the primary sent one Event and failed on the second; the
\* producer has gone and the ingress reader ended; no failover happened
C20_Witness ==
    /\ err[Main] = "write"
    /\ ~DrainDone(Main)
    /\ idx[Main] = 1
    /\ ipc = "done"
    /\ spc = "recv"

\* C17 (as claimed): no worker is ever terminated by a read error of the
\* ingress connection.
C17_NoWorkerEndsOnReadError ==
    \A w \in Workers : err[w] # "read"

\* C17 (amended): a read error ends the ingress reader for good and the
\* buffer no longer grows; the step in which the reader ends changes nothing
\* else, and a worker that is Draining can still take its next step; only a
\* worker in PassThrough, which reads the same connection, ends on a read
\* error, at its own next read.
C17_IngressReadErrorScope ==
    /\ [][ipc = "done" =>
            /\ ipc' = "done"
            /\ events' = events
            /\ ingressRead' = ingressRead]_vars
    /\ [][(ipc # "done" /\ ipc' = "done") =>
            UNCHANGED <<appVars, events, rlVars, workerVars, setupVars, down>>]_vars
    /\ [](ipc = "done" => ~appOpen)
    /\ [](\A w \in Workers :
            /\ err[w] = "read" => (~appOpen /\ DrainDone(w))
            /\ (ipc = "done" /\ ~down /\ Draining(w)) => ENABLED LocalStep(w)
            /\ (~appOpen /\ ~down /\ pc[w] = "passread" /\ appConn = "conn")
                  => ENABLED startWorkerPassReadErr(w))

\* C17 witness: the ingress reader ended on a read error; the backup, still
\* Draining, holds a permit and is about to send, while the primary, in
\* PassThrough, ended on the same connection's error
C17_Witness ==
    /\ ipc = "done"
    /\ pc[Backup] = "write"
    /\ err[Main] = "read"

\* the ids of the frames of a sequence
Ids(frames) == {frames[k].id : k \in 1..Len(frames)}

\* the ids of the frames worker w wrote with a given op
LogIds(w, op) == Ids(Frames(w, op))

LiveSpec ==
    /\ Spec
    /\ WF_vars(refill)
    /\ \A w \in Workers :
          /\ WF_vars(startWorkerAllow(w))
          /\ WF_vars(startWorkerSleep(w))
          /\ WF_vars(startWorkerWrite(w) \/ startWorkerWriteErr(w))

\* C15 as stated: a denied worker, with max > 0, eventually sends the Event
\* at its index
C15_DeniedEventuallySends ==
    \A w \in Workers : \A i \in 0..(MaxFrames - 1) :
        (pc[w] = "sleep" /\ idx[w] = i /\ maxAllowed > 0) ~> (Len(DrainSends(w)) > i)

\* C15 (amended): a denial changes nothing but the worker's position (same
\* index, same Event, nothing sent, not terminated); the sleeping worker's
\* only step is back to Allow; with max > 0 it eventually holds a permit and
\* is at the write of that same Event, which either sends exactly that Event
\* or fails and ends the worker; the sends of a drain never outnumber the
\* permits granted to it.
C15_DenialLosesNothing ==
    /\ [][\A w \in Workers :
            /\ (pc[w] = "allow" /\ ~AllowGrants(tokens) /\ pc'[w] # pc[w]) =>
                  /\ pc'[w] = "sleep"
                  /\ UNCHANGED <<idx, event, log, err, permits, events>>
            /\ (pc[w] = "sleep" /\ pc'[w] # pc[w]) =>
                  /\ pc'[w] = "allow"
                  /\ UNCHANGED <<idx, event, log, err, permits, events, tokens>>
            /\ (pc[w] = "write" /\ pc'[w] # pc[w]) =>
                  \/ /\ pc'[w] = "check"
                     /\ log'[w] = Append(log[w], <<"send", Marshal(events[idx[w] + 1])>>)
                  \/ /\ pc'[w] = "Terminated"
                     /\ err'[w] = "write"
                     /\ log'[w] = log[w]
            /\ Len(DrainSends(w)') > Len(DrainSends(w)) =>
                  /\ pc[w] = "write"
                  /\ permits[w] = Len(DrainSends(w)) + 1]_vars
    /\ [](\A w \in Workers :
            /\ pc[w] = "sleep" => (~down /\ ENABLED startWorkerSleep(w))
            /\ pc[w] \in {"allow", "sleep", "write"} => event[w] = events[idx[w] + 1]
            /\ Len(DrainSends(w)) <= permits[w]
            /\ permits[w] - Len(DrainSends(w)) =
                  (IF pc[w] = "write" \/ (err[w] = "write" /\ ~DrainDone(w)) THEN 1 ELSE 0))
    /\ \A w \in Workers : \A i \in 0..(MaxFrames - 1) :
          (pc[w] = "sleep" /\ idx[w] = i /\ maxAllowed > 0)
              ~> (pc[w] = "write" /\ idx[w] = i /\ permits[w] = i + 1)

\* C15 witness: the primary sent the first Event with the only token, was
\* denied on the second Event and sleeps on it
C15_Witness ==
    /\ pc[Main] = "sleep"
    /\ maxAllowed = 1
    /\ tokens = 0
    /\ idx[Main] = 1
    /\ Len(DrainSends(Main)) = 1
    /\ permits[Main] = 1
    /\ Len(events) >= 2

\* ------------------------------------------------------------ locks
\* The actions above take each critical section as one step.  The actions
\* below take c.mu and rl.mu step by step (Lock, then the section with its
\* Unlock); LockSpec runs the program with them.

\* refill: a tick arrives; rl.mu.Lock()
refillLock ==
    /\ ~down
    /\ rlmu = "free"
    /\ rlmu' = "refill"
    /\ UNCHANGED <<appVars, ingressVars, events, rlVars, workerVars, setupVars, down, mu>>

\* refill: rl.tokens = rl.maxAllowed; rl.mu.Unlock()
refillUnlock ==
    /\ ~down
    /\ rlmu = "refill"
    /\ tokens' = RefillTokens(tokens, maxAllowed)
    /\ granted' = 0
    /\ rlmu' = "free"
    /\ UNCHANGED <<maxAllowed, appVars, ingressVars, events, workerVars, setupVars, down, mu>>

\* readEventsFromApp: c.mu.Lock()
readEventsFromAppLock ==
    /\ ~down
    /\ ipc = "append"
    /\ mu = "free"
    /\ mu' = "ingress"
    /\ ipc' = "appending"
    /\ UNCHANGED <<appVars, ievent, ingressRead, events, rlVars, workerVars, setupVars,
                   down, rlmu>>

\* readEventsFromApp: c.events = append(c.events, event); c.mu.Unlock()
readEventsFromAppUnlock ==
    /\ ~down
    /\ ipc = "appending"
    /\ events' = Append(events, ievent)
    /\ ipc' = "read"
    /\ ievent' = NoEvent
    /\ mu' = "free"
    /\ UNCHANGED <<appVars, ingressRead, rlVars, workerVars, setupVars, down, rlmu>>

\* startWorker: c.mu.Lock() at the top of the drain loop's body
startWorkerLock(w) ==
    /\ ~down
    /\ pc[w] = "read"
    /\ mu = "free"
    /\ mu' = w
    /\ pc' = [pc EXCEPT ![w] = "locked"]
    /\ UNCHANGED <<taken, appVars, ingressVars, events, rlVars, idx, event, msg, log, err,
                   finalLen, permits, provider, setupVars, down, rlmu>>

\* fault: the worker keeps c.mu after reading its Event
MuHeldAfterRead(w) == w

\* startWorker: the holder of c.mu after c.mu.Unlock()
MuAfterRead(w) == "free"

\* startWorker: event := c.events[i]; c.mu.Unlock()
startWorkerUnlock(w) ==
    /\ ~down
    /\ pc[w] = "locked"
    /\ event' = [event EXCEPT ![w] = events[idx[w] + 1]]
    /\ mu' = MuAfterRead(w)
    /\ pc' = [pc EXCEPT ![w] = "allow"]
    /\ UNCHANGED <<taken, appVars, ingressVars, events, rlVars, idx, msg, log, err,
                   finalLen, permits, provider, setupVars, down, rlmu>>

\* Allow: rl.mu.Lock()
AllowLock(w) ==
    /\ ~down
    /\ pc[w] = "allow"
    /\ rlmu = "free"
    /\ rlmu' = w
    /\ pc' = [pc EXCEPT ![w] = "allowing"]
    /\ UNCHANGED <<taken, appVars, ingressVars, events, rlVars, idx, event, msg, log, err,
                   finalLen, permits, provider, setupVars, down, mu>>

\* Allow: the test and decrement of rl.tokens, the return, and the deferred
\* rl.mu.Unlock()
AllowUnlock(w) ==
    /\ ~down
    /\ pc[w] = "allowing"
    /\ tokens' = AllowTokens(tokens)
    /\ IF AllowGrants(tokens)
       THEN /\ granted' = granted + 1
            /\ permits' = [permits EXCEPT ![w] = @ + 1]
            /\ pc' = [pc EXCEPT ![w] = "write"]
       ELSE /\ granted' = granted
            /\ permits' = permits
            /\ pc' = [pc EXCEPT ![w] = DeniedPc]
    /\ rlmu' = "free"
    /\ UNCHANGED <<taken, appVars, ingressVars, events, maxAllowed, idx, event, msg,
                   log, err, finalLen, provider, setupVars, down, mu>>

LockNext ==
    \/ refillLock
    \/ refillUnlock
    \/ handleAppConnection
    \/ AppClose
    \/ readEventsFromAppRead
    \/ readEventsFromAppErr
    \/ readEventsFromAppLock
    \/ readEventsFromAppUnlock
    \/ mainDial
    \/ setupDial
    \/ \E w \in Workers : startWorkerCheck(w)
    \/ \E w \in Workers : startWorkerLock(w)
    \/ \E w \in Workers : startWorkerUnlock(w)
    \/ \E w \in Workers : AllowLock(w)
    \/ \E w \in Workers : AllowUnlock(w)
    \/ \E w \in Workers : startWorkerSleep(w)
    \/ \E w \in Workers : startWorkerWrite(w)
    \/ \E w \in Workers : startWorkerWriteErr(w)
    \/ \E w \in Workers : startWorkerFire(w)
    \/ \E w \in Workers : startWorkerPassNil(w)
    \/ \E w \in Workers : startWorkerPassRead(w)
    \/ \E w \in Workers : startWorkerPassReadErr(w)
    \/ \E w \in Workers : startWorkerPassWrite(w)
    \/ \E w \in Workers : startWorkerPassWriteErr(w)

LockSpec == Init /\ [][LockNext]_vars

\* C12: every access to c.events is made by the holder of c.mu: the append,
\* the read of c.events[i], and the read of len(c.events) in the drain
\* loop's condition.
C12_BufferAccessUnderLock ==
    [][/\ events' # events => mu = "ingress"
       /\ \A w \in Workers :
            /\ (pc[w] = "locked" /\ pc'[w] # pc[w]) => mu = w
            /\ (pc[w] = "check" /\ pc'[w] # pc[w]) => mu = w]_vars

\* a goroutine that holds a lock runs on to its Unlock
LockFairSpec ==
    /\ LockSpec
    /\ WF_vars(readEventsFromAppUnlock)
    /\ WF_vars(refillUnlock)
    /\ \A w \in Workers : WF_vars(startWorkerUnlock(w)) /\ WF_vars(AllowUnlock(w))

\* C13: the holder of c.mu or of rl.mu is inside its critical section and
\* nowhere else, so a task at a network read or write, in the backoff sleep
\* or at the rendezvous holds no lock; while the process is up the holder's
\* next step is its Unlock, which nothing can block; and a lock that is held
\* is released again (unless the process dies meanwhile), so no task waits
\* for a lock that never becomes free.
C13_NoLockAcrossBlocking ==
    /\ [](/\ mu \in {"free", "ingress"} \cup Workers
          /\ rlmu \in {"free", "refill"} \cup Workers
          /\ (mu = "ingress") <=> (ipc = "appending")
          /\ \A w \in Workers :
              /\ (mu = w) <=> (pc[w] = "locked")
              /\ (rlmu = w) <=> (pc[w] = "allowing")
              /\ pc[w] \in {"dial", "sleep", "write", "fire", "passread", "passwrite"}
                    => (mu # w /\ rlmu # w)
              /\ ~(mu = w /\ rlmu = w)
          /\ ipc = "read" => mu # "ingress"
          /\ ~down =>
              /\ mu = "ingress" => ENABLED readEventsFromAppUnlock
              /\ rlmu = "refill" => ENABLED refillUnlock
              /\ \A w \in Workers :
                  /\ mu = w => ENABLED startWorkerUnlock(w)
                  /\ rlmu = w => ENABLED AllowUnlock(w))
    /\ (mu # "free") ~> (mu = "free" \/ down)
    /\ (rlmu # "free") ~> (rlmu = "free" \/ down)

\* C13 witness: the ingress reader holds c.mu while the backup waits for it
\* at its Lock, the refill task holds rl.mu, and the primary is in a
\* pass-through write
C13_Witness ==
    /\ mu = "ingress"
    /\ pc[Backup] = "read"
    /\ rlmu = "refill"
    /\ pc[Main] = "passwrite"

====
